---- MODULE Spec2Model ----
(***************************************************************************)
(* ERC-20 ledger of src/lib.rs (ink! contract Erc20): total supply,        *)
(* balances, allowances, the emitted event log and the outcome of the      *)
(* last message.  Every message is one atomic step.                        *)
(***************************************************************************)
EXTENDS Integers, Sequences, FiniteSets, TLC

\* ---------------------------------------------------------------- bounds
\* Largest value of the Balance type (u128 in the contract, scaled down).
MaxBalance == 2
\* Longest event log explored (the mint event included).
MaxEvents == 3

\* AccountId values explored.
Accounts == {"alice", "bob", "charlie"}
\* Option::None of an event's from/to field.
None == "none"
\* The Balance type.
Balance == 0..MaxBalance

VARIABLES total_supply, balances, allowances, events, op, result

\* History of the calls, kept beside the contract's state: for each pair
\* (owner, spender) the value of the owner's latest approve for the spender
\* (0 before the first one), and the sum of the values of the spender's
\* successful transfer_from calls from the owner since then.
VARIABLES approved, moved

hist == <<approved, moved>>

vars == <<total_supply, balances, allowances, events, op, result, approved, moved>>

\* ------------------------------------------------------------- storage
\* Mapping::insert: store value under key, replacing any earlier value.
Insert(m, k, v) == [x \in DOMAIN m \cup {k} |-> IF x = k THEN v ELSE m[x]]

\* Mapping::get(..).unwrap_or_default(): the stored value, 0 when absent.
GetOrDefault(m, k) == IF k \in DOMAIN m THEN m[k] ELSE 0

total_supply_get == total_supply

balance_of_impl(b, owner) == GetOrDefault(b, owner)

balance_of(owner) == GetOrDefault(balances, owner)

allowance_impl(owner, spender) == GetOrDefault(allowances, <<owner, spender>>)

allowance(owner, spender) == allowance_impl(owner, spender)

\* Event constructors.
Transfer(from, to, value) ==
    [type |-> "Transfer", from |-> from, to |-> to, value |-> value]

Approval(owner, spender, value) ==
    [type |-> "Approval", owner |-> owner, spender |-> spender, value |-> value]

\* Error variants and the outcomes of a message.
Error == {"InsufficientBalance", "InsufficientAllowance"}

\* --------------------------------------------------------------- helper
\* Variant of transfer_from_to that forgets to debit the sender.
transfer_from_to_NoDebit(from, to, value) ==
    LET from_balance == balance_of_impl(balances, from) IN
    IF from_balance < value
    THEN {[res |-> "InsufficientBalance", balances |-> balances, events |-> events]}
    ELSE LET to_balance == balance_of_impl(balances, to)
             ev == Append(events, Transfer(from, to, value))
         IN IF to_balance + value > MaxBalance
            THEN {[res |-> "Panic", balances |-> balances, events |-> events],
                  [res |-> "Ok",
                   balances |-> Insert(balances, to, (to_balance + value) % (MaxBalance + 1)),
                   events |-> ev]}
            ELSE {[res |-> "Ok",
                   balances |-> Insert(balances, to, to_balance + value),
                   events |-> ev]}

\* Variant of transfer_from_to that stores value as the recipient's balance
\* instead of adding it to the balance already held.
transfer_from_to_Overwrite(from, to, value) ==
    LET from_balance == balance_of_impl(balances, from) IN
    IF from_balance < value
    THEN {[res |-> "InsufficientBalance", balances |-> balances, events |-> events]}
    ELSE LET b1 == Insert(balances, from, from_balance - value)
         IN {[res |-> "Ok",
              balances |-> Insert(b1, to, value),
              events |-> Append(events, Transfer(from, to, value))]}

\* Variant of transfer_from_to that rejects a transfer of the whole balance
\* (<= in place of <).
transfer_from_to_Leq(from, to, value) ==
    LET from_balance == balance_of_impl(balances, from) IN
    IF from_balance <= value
    THEN {[res |-> "InsufficientBalance", balances |-> balances, events |-> events]}
    ELSE LET b1 == Insert(balances, from, from_balance - value)
             to_balance == balance_of_impl(b1, to)
             ev == Append(events, Transfer(from, to, value))
         IN IF to_balance + value > MaxBalance
            THEN {[res |-> "Panic", balances |-> balances, events |-> events],
                  [res |-> "Ok",
                   balances |-> Insert(b1, to, (to_balance + value) % (MaxBalance + 1)),
                   events |-> ev]}
            ELSE {[res |-> "Ok",
                   balances |-> Insert(b1, to, to_balance + value),
                   events |-> ev]}

\* Variant of transfer_from_to that reads both balances before it writes
\* either, so a transfer to oneself credits a stale balance.
transfer_from_to_StaleRead(from, to, value) ==
    LET from_balance == balance_of_impl(balances, from) IN
    IF from_balance < value
    THEN {[res |-> "InsufficientBalance", balances |-> balances, events |-> events]}
    ELSE LET to_balance == balance_of_impl(balances, to)
             b1 == Insert(balances, from, from_balance - value)
             ev == Append(events, Transfer(from, to, value))
         IN IF to_balance + value > MaxBalance
            THEN {[res |-> "Panic", balances |-> balances, events |-> events],
                  [res |-> "Ok",
                   balances |-> Insert(b1, to, (to_balance + value) % (MaxBalance + 1)),
                   events |-> ev]}
            ELSE {[res |-> "Ok",
                   balances |-> Insert(b1, to, to_balance + value),
                   events |-> ev]}

\* Variant of transfer_from_to that emits the constructor's event shape
\* (from: None) for an ordinary transfer.
transfer_from_to_MintEvent(from, to, value) ==
    LET from_balance == balance_of_impl(balances, from) IN
    IF from_balance < value
    THEN {[res |-> "InsufficientBalance", balances |-> balances, events |-> events]}
    ELSE LET b1 == Insert(balances, from, from_balance - value)
             to_balance == balance_of_impl(b1, to)
             ev == Append(events, Transfer(None, to, value))
         IN IF to_balance + value > MaxBalance
            THEN {[res |-> "Panic", balances |-> balances, events |-> events],
                  [res |-> "Ok",
                   balances |-> Insert(b1, to, (to_balance + value) % (MaxBalance + 1)),
                   events |-> ev]}
            ELSE {[res |-> "Ok",
                   balances |-> Insert(b1, to, to_balance + value),
                   events |-> ev]}

\* Variant of transfer_from_to that returns early, without an event, when
\* value is 0.
transfer_from_to_SkipZero(from, to, value) ==
    LET from_balance == balance_of_impl(balances, from) IN
    IF from_balance < value
    THEN {[res |-> "InsufficientBalance", balances |-> balances, events |-> events]}
    ELSE IF value = 0
    THEN {[res |-> "Ok", balances |-> balances, events |-> events]}
    ELSE LET b1 == Insert(balances, from, from_balance - value)
             to_balance == balance_of_impl(b1, to)
             ev == Append(events, Transfer(from, to, value))
         IN IF to_balance + value > MaxBalance
            THEN {[res |-> "Panic", balances |-> balances, events |-> events],
                  [res |-> "Ok",
                   balances |-> Insert(b1, to, (to_balance + value) % (MaxBalance + 1)),
                   events |-> ev]}
            ELSE {[res |-> "Ok",
                   balances |-> Insert(b1, to, to_balance + value),
                   events |-> ev]}

\* Variant of transfer_from_to that emits the Transfer event with from and
\* to exchanged.
transfer_from_to_EventSwapped(from, to, value) ==
    LET from_balance == balance_of_impl(balances, from) IN
    IF from_balance < value
    THEN {[res |-> "InsufficientBalance", balances |-> balances, events |-> events]}
    ELSE LET b1 == Insert(balances, from, from_balance - value)
             to_balance == balance_of_impl(b1, to)
             ev == Append(events, Transfer(to, from, value))
         IN IF to_balance + value > MaxBalance
            THEN {[res |-> "Panic", balances |-> balances, events |-> events],
                  [res |-> "Ok",
                   balances |-> Insert(b1, to, (to_balance + value) % (MaxBalance + 1)),
                   events |-> ev]}
            ELSE {[res |-> "Ok",
                   balances |-> Insert(b1, to, to_balance + value),
                   events |-> ev]}

\* transfer_from_to: the set of outcomes the build can produce.  The
\* addition to_balance + value is unchecked u128 arithmetic: when it leaves
\* the type it either traps (the message is reverted) or wraps.
transfer_from_to(from, to, value) ==
    LET from_balance == balance_of_impl(balances, from) IN
    IF from_balance < value
    THEN {[res |-> "InsufficientBalance", balances |-> balances, events |-> events]}
    ELSE LET b1 == Insert(balances, from, from_balance - value)
             to_balance == balance_of_impl(b1, to)
             ev == Append(events, Transfer(from, to, value))
         IN IF to_balance + value > MaxBalance
            THEN {[res |-> "Panic", balances |-> balances, events |-> events],
                  [res |-> "Ok",
                   balances |-> Insert(b1, to, (to_balance + value) % (MaxBalance + 1)),
                   events |-> ev]}
            ELSE {[res |-> "Ok",
                   balances |-> Insert(b1, to, to_balance + value),
                   events |-> ev]}

\* ---------------------------------------------------------------- state
\* No approve and no transfer_from has happened at construction.
HistoryInit ==
    /\ approved = [p \in Accounts \X Accounts |-> 0]
    /\ moved = [p \in Accounts \X Accounts |-> 0]

\* Variant of the constructor that never stores total_supply (it keeps the
\* allocation default 0).
Init_NoSupply ==
    \E initial_supply \in Balance, caller \in Accounts :
        /\ total_supply = 0
        /\ balances = Insert(<<>>, caller, initial_supply)
        /\ allowances = <<>>
        /\ events = <<Transfer(None, caller, initial_supply)>>
        /\ op = "new"
        /\ result = "Ok"
        /\ HistoryInit

\* Variant of the constructor that never credits the creator.
Init_NoMint ==
    \E initial_supply \in Balance, caller \in Accounts :
        /\ total_supply = initial_supply
        /\ balances = <<>>
        /\ allowances = <<>>
        /\ events = <<Transfer(None, caller, initial_supply)>>
        /\ op = "new"
        /\ result = "Ok"
        /\ HistoryInit

Init ==
    \E initial_supply \in Balance, caller \in Accounts :
        /\ total_supply = initial_supply
        /\ balances = Insert(<<>>, caller, initial_supply)
        /\ allowances = <<>>
        /\ events = <<Transfer(None, caller, initial_supply)>>
        /\ op = "new"
        /\ result = "Ok"
        /\ HistoryInit

transfer(caller, to, value) ==
    /\ \E out \in transfer_from_to(caller, to, value) :
        /\ Len(out.events) <= MaxEvents
        /\ balances' = out.balances
        /\ events' = out.events
        /\ result' = out.res
    /\ op' = "transfer"
    /\ UNCHANGED <<total_supply, allowances>>

\* Variant of approve that adds value to the allowance already granted.
approve_Additive(caller, spender, value) ==
    /\ Len(events) < MaxEvents
    /\ allowances' = Insert(allowances, <<caller, spender>>,
                            (allowance_impl(caller, spender) + value) % (MaxBalance + 1))
    /\ events' = Append(events, Approval(caller, spender, value))
    /\ op' = "approve"
    /\ result' = "Ok"
    /\ UNCHANGED <<total_supply, balances>>

approve(caller, spender, value) ==
    /\ Len(events) < MaxEvents
    /\ allowances' = Insert(allowances, <<caller, spender>>, value)
    /\ events' = Append(events, Approval(caller, spender, value))
    /\ op' = "approve"
    /\ result' = "Ok"
    /\ UNCHANGED <<total_supply, balances>>

\* Variant of transfer_from that lowers the allowance before the balance
\* check, so a call failing with InsufficientBalance still spends allowance.
transfer_from_DecFirst(caller, from, to, value) ==
    /\ LET allowance_ == allowance_impl(from, caller) IN
       IF allowance_ < value
       THEN /\ result' = "InsufficientAllowance"
            /\ UNCHANGED <<balances, allowances, events>>
       ELSE \E out \in transfer_from_to(from, to, value) :
            /\ Len(out.events) <= MaxEvents
            /\ balances' = out.balances
            /\ events' = out.events
            /\ result' = out.res
            /\ allowances' = IF out.res # "Panic"
                             THEN Insert(allowances, <<from, caller>>, allowance_ - value)
                             ELSE allowances
    /\ op' = "transfer_from"
    /\ UNCHANGED total_supply

\* Variant of transfer_from that checks the balance before the allowance.
transfer_from_BalFirst(caller, from, to, value) ==
    /\ LET allowance_ == allowance_impl(from, caller) IN
       IF balance_of_impl(balances, from) < value
       THEN /\ result' = "InsufficientBalance"
            /\ UNCHANGED <<balances, allowances, events>>
       ELSE IF allowance_ < value
       THEN /\ result' = "InsufficientAllowance"
            /\ UNCHANGED <<balances, allowances, events>>
       ELSE \E out \in transfer_from_to(from, to, value) :
            /\ Len(out.events) <= MaxEvents
            /\ balances' = out.balances
            /\ events' = out.events
            /\ result' = out.res
            /\ allowances' = IF out.res = "Ok"
                             THEN Insert(allowances, <<from, caller>>, allowance_ - value)
                             ELSE allowances
    /\ op' = "transfer_from"
    /\ UNCHANGED total_supply

\* Variant of transfer_from that resets the allowance to zero on success.
transfer_from_Reset(caller, from, to, value) ==
    /\ LET allowance_ == allowance_impl(from, caller) IN
       IF allowance_ < value
       THEN /\ result' = "InsufficientAllowance"
            /\ UNCHANGED <<balances, allowances, events>>
       ELSE \E out \in transfer_from_to(from, to, value) :
            /\ Len(out.events) <= MaxEvents
            /\ balances' = out.balances
            /\ events' = out.events
            /\ result' = out.res
            /\ allowances' = IF out.res = "Ok"
                             THEN Insert(allowances, <<from, caller>>, 0)
                             ELSE allowances
    /\ op' = "transfer_from"
    /\ UNCHANGED total_supply

\* Variant of transfer_from that rejects a value equal to the allowance
\* (<= in place of <).
transfer_from_AllowLeq(caller, from, to, value) ==
    /\ LET allowance_ == allowance_impl(from, caller) IN
       IF allowance_ <= value
       THEN /\ result' = "InsufficientAllowance"
            /\ UNCHANGED <<balances, allowances, events>>
       ELSE \E out \in transfer_from_to(from, to, value) :
            /\ Len(out.events) <= MaxEvents
            /\ balances' = out.balances
            /\ events' = out.events
            /\ result' = out.res
            /\ allowances' = IF out.res = "Ok"
                             THEN Insert(allowances, <<from, caller>>, allowance_ - value)
                             ELSE allowances
    /\ op' = "transfer_from"
    /\ UNCHANGED total_supply

\* Variant of transfer_from that stores the lowered allowance under
\* (caller, from) instead of (from, caller).
transfer_from_SwappedKey(caller, from, to, value) ==
    /\ LET allowance_ == allowance_impl(from, caller) IN
       IF allowance_ < value
       THEN /\ result' = "InsufficientAllowance"
            /\ UNCHANGED <<balances, allowances, events>>
       ELSE \E out \in transfer_from_to(from, to, value) :
            /\ Len(out.events) <= MaxEvents
            /\ balances' = out.balances
            /\ events' = out.events
            /\ result' = out.res
            /\ allowances' = IF out.res = "Ok"
                             THEN Insert(allowances, <<caller, from>>, allowance_ - value)
                             ELSE allowances
    /\ op' = "transfer_from"
    /\ UNCHANGED total_supply

\* Variant of transfer_from that looks the allowance up under
\* (caller, from): the allowance the caller granted, not the one it holds.
transfer_from_WrongOwner(caller, from, to, value) ==
    /\ LET allowance_ == allowance_impl(caller, from) IN
       IF allowance_ < value
       THEN /\ result' = "InsufficientAllowance"
            /\ UNCHANGED <<balances, allowances, events>>
       ELSE \E out \in transfer_from_to(from, to, value) :
            /\ Len(out.events) <= MaxEvents
            /\ balances' = out.balances
            /\ events' = out.events
            /\ result' = out.res
            /\ allowances' = IF out.res = "Ok"
                             THEN Insert(allowances, <<caller, from>>, allowance_ - value)
                             ELSE allowances
    /\ op' = "transfer_from"
    /\ UNCHANGED total_supply

\* Variant of transfer_from that never lowers the allowance.
transfer_from_NoDec(caller, from, to, value) ==
    /\ LET allowance_ == allowance_impl(from, caller) IN
       IF allowance_ < value
       THEN /\ result' = "InsufficientAllowance"
            /\ UNCHANGED <<balances, allowances, events>>
       ELSE \E out \in transfer_from_to(from, to, value) :
            /\ Len(out.events) <= MaxEvents
            /\ balances' = out.balances
            /\ events' = out.events
            /\ result' = out.res
            /\ allowances' = allowances
    /\ op' = "transfer_from"
    /\ UNCHANGED total_supply

transfer_from(caller, from, to, value) ==
    /\ LET allowance_ == allowance_impl(from, caller) IN
       IF allowance_ < value
       THEN /\ result' = "InsufficientAllowance"
            /\ UNCHANGED <<balances, allowances, events>>
       ELSE \E out \in transfer_from_to(from, to, value) :
            /\ Len(out.events) <= MaxEvents
            /\ balances' = out.balances
            /\ events' = out.events
            /\ result' = out.res
            /\ allowances' = IF out.res = "Ok"
                             THEN Insert(allowances, <<from, caller>>, allowance_ - value)
                             ELSE allowances
    /\ op' = "transfer_from"
    /\ UNCHANGED total_supply

Next ==
    \/ \E caller \in Accounts, to \in Accounts, value \in Balance :
          /\ transfer(caller, to, value)
          /\ UNCHANGED hist
    \/ \E caller \in Accounts, spender \in Accounts, value \in Balance :
          /\ approve(caller, spender, value)
          /\ approved' = [approved EXCEPT ![<<caller, spender>>] = value]
          /\ moved' = [moved EXCEPT ![<<caller, spender>>] = 0]
    \/ \E caller \in Accounts, from \in Accounts, to \in Accounts, value \in Balance :
          /\ transfer_from(caller, from, to, value)
          /\ moved' = IF result' = "Ok"
                      THEN [moved EXCEPT ![<<from, caller>>] = @ + value]
                      ELSE moved
          /\ UNCHANGED approved

Spec == Init /\ [][Next]_vars

TypeOK ==
    /\ total_supply \in Balance
    /\ DOMAIN balances \subseteq Accounts
    /\ \A a \in DOMAIN balances : balances[a] \in Balance
    /\ DOMAIN allowances \subseteq Accounts \X Accounts
    /\ \A p \in DOMAIN allowances : allowances[p] \in Balance
    /\ Len(events) <= MaxEvents

\* ------------------------------------------------------- claim helpers
RECURSIVE SumOver(_, _)
\* Sum of the values m[k] stored under the keys ks.
SumOver(m, ks) ==
    IF ks = {} THEN 0
    ELSE LET k == CHOOSE x \in ks : TRUE IN m[k] + SumOver(m, ks \ {k})

\* sum(balances.values())
SumBalances == SumOver(balances, DOMAIN balances)

\* The most recently emitted event.
LastEvent == events[Len(events)]

\* C1: in every reachable state the sum of all account balances equals
\* total_supply.
C1_SupplyConserved == SumBalances = total_supply

\* C1 witness: a transfer has moved tokens and two accounts hold a balance.
C1_Witness ==
    /\ op \in {"transfer", "transfer_from"}
    /\ result = "Ok"
    /\ \E a \in Accounts, b \in Accounts :
          a # b /\ balance_of(a) > 0 /\ balance_of(b) > 0

\* C2: a successful transfer or transfer_from of v from A to a different
\* account B lowers A's balance by exactly v, raises B's by exactly v, and
\* leaves every other balance and total_supply unchanged.
C2_Conservation ==
    \A A \in Accounts, B \in Accounts, v \in Balance :
        A # B =>
        ~ ENABLED (/\ \/ transfer(A, B, v)
                      \/ \E c \in Accounts : transfer_from(c, A, B, v)
                   /\ result' = "Ok"
                   /\ ~ (/\ GetOrDefault(balances', A) = balance_of(A) - v
                         /\ GetOrDefault(balances', B) = balance_of(B) + v
                         /\ \A x \in Accounts \ {A, B} :
                               GetOrDefault(balances', x) = balance_of(x)
                         /\ total_supply' = total_supply))

\* C2 witness: the last call moved a positive value between two different
\* accounts and the recipient now holds more than that value.
C2_Witness ==
    /\ op \in {"transfer", "transfer_from"}
    /\ result = "Ok"
    /\ LastEvent.type = "Transfer"
    /\ LastEvent.from # LastEvent.to
    /\ LastEvent.value > 0
    /\ balance_of(LastEvent.to) > LastEvent.value

\* C3: a transfer or transfer_from that returns InsufficientBalance or
\* InsufficientAllowance leaves every balance, every allowance and
\* total_supply as they were and emits no event.
C3_FailureAtomic ==
    [][(op' \in {"transfer", "transfer_from"} /\ result' \in Error)
          => UNCHANGED <<balances, allowances, total_supply, events>>]_vars

\* C3 witness: a transfer_from passed the allowance check and failed the
\* balance check, after an earlier successful call; the allowance is still
\* larger than the owner's balance.
C3_Witness ==
    /\ op = "transfer_from"
    /\ result = "InsufficientBalance"
    /\ Len(events) >= 3
    /\ \E from \in Accounts, caller \in Accounts :
          /\ allowance(from, caller) > balance_of(from)
          /\ balance_of(from) > 0

\* C4: transfer(to, value) by caller returns Ok exactly when
\* balance_of(caller) >= value and InsufficientBalance otherwise.
C4_TransferOutcome ==
    \A caller \in Accounts, to \in Accounts, value \in Balance :
        /\ Len(events) < MaxEvents => ENABLED transfer(caller, to, value)
        /\ ~ ENABLED (/\ transfer(caller, to, value)
                      /\ result' # IF balance_of(caller) >= value
                                   THEN "Ok" ELSE "InsufficientBalance")

\* C4 witness: a transfer was rejected although some account holds tokens.
C4_Witness ==
    /\ op = "transfer"
    /\ result = "InsufficientBalance"
    /\ Len(events) >= 2
    /\ \E a \in Accounts : balance_of(a) > 0

\* C5: transfer_from(from, to, value) by caller returns
\* InsufficientAllowance when allowance(from, caller) < value,
\* InsufficientBalance when the allowance suffices and balance_of(from) <
\* value, and Ok exactly when both suffice.
C5_TransferFromOutcome ==
    \A caller \in Accounts, from \in Accounts, to \in Accounts, value \in Balance :
        /\ Len(events) < MaxEvents => ENABLED transfer_from(caller, from, to, value)
        /\ ~ ENABLED (/\ transfer_from(caller, from, to, value)
                      /\ result' # IF allowance(from, caller) < value
                                   THEN "InsufficientAllowance"
                                   ELSE IF balance_of(from) < value
                                        THEN "InsufficientBalance" ELSE "Ok")

\* C5 witness: a transfer_from was rejected for its allowance in a state
\* where some owner has granted a positive allowance that is below the
\* largest amount and holds less than the largest amount too.
C5_Witness ==
    /\ op = "transfer_from"
    /\ result = "InsufficientAllowance"
    /\ \E from \in Accounts, caller \in Accounts :
          /\ allowance(from, caller) > 0
          /\ allowance(from, caller) < MaxBalance
          /\ balance_of(from) < MaxBalance

\* C6: a successful transfer_from(from, to, value) by caller moves value
\* from `from` to `to`, emits that one Transfer and lowers
\* allowance(from, caller) by exactly value; a transfer_from that does not
\* succeed changes neither balances nor allowances.
C6_TransferFromEffect ==
    \A caller \in Accounts, from \in Accounts, to \in Accounts, value \in Balance :
        ~ ENABLED (/\ transfer_from(caller, from, to, value)
                   /\ ~ IF result' = "Ok"
                        THEN /\ \A x \in Accounts :
                                   GetOrDefault(balances', x) =
                                       balance_of(x) - (IF x = from THEN value ELSE 0)
                                                     + (IF x = to THEN value ELSE 0)
                             /\ GetOrDefault(allowances', <<from, caller>>) =
                                   allowance(from, caller) - value
                             /\ events' = Append(events, Transfer(from, to, value))
                        ELSE /\ balances' = balances
                             /\ allowances' = allowances
                             /\ events' = events)

\* C6 witness: a transfer_from succeeded for a positive value and left a
\* positive allowance behind.
C6_Witness ==
    /\ op = "transfer_from"
    /\ result = "Ok"
    /\ LastEvent.type = "Transfer"
    /\ LastEvent.value > 0
    /\ LastEvent.from # LastEvent.to
    /\ \E caller \in Accounts : allowance(LastEvent.from, caller) > 0

\* C7: approve(spender, value) by caller returns Ok and sets
\* allowance(caller, spender) to exactly value.
C7_ApproveOverwrites ==
    \A caller \in Accounts, spender \in Accounts, value \in Balance :
        /\ Len(events) < MaxEvents => ENABLED approve(caller, spender, value)
        /\ ~ ENABLED (/\ approve(caller, spender, value)
                      /\ ~ (/\ result' = "Ok"
                            /\ GetOrDefault(allowances', <<caller, spender>>) = value))

\* C7 witness: two approvals of the same pair in a row, the second smaller
\* than the first and larger than zero, by an owner holding less than
\* either.
C7_Witness ==
    /\ op = "approve"
    /\ Len(events) = 3
    /\ events[2].type = "Approval"
    /\ events[3].type = "Approval"
    /\ events[2].owner = events[3].owner
    /\ events[2].spender = events[3].spender
    /\ events[3].value > 0
    /\ events[2].value > events[3].value
    /\ balance_of(events[3].owner) < events[3].value
    /\ allowance(events[3].owner, events[3].spender) = events[3].value

\* C8 as stated: every balance and every allowance is >= 0 and
\* <= total_supply.
C8_AllAmountsWithinSupply ==
    /\ \A a \in DOMAIN balances : balances[a] >= 0 /\ balances[a] <= total_supply
    /\ \A p \in DOMAIN allowances :
          allowances[p] >= 0 /\ allowances[p] <= total_supply

\* C8 amended: every balance is >= 0 and <= total_supply; every allowance
\* is >= 0 and at most the largest Balance value (it may exceed
\* total_supply).
C8_AmountsInRange ==
    /\ \A a \in DOMAIN balances : balances[a] >= 0 /\ balances[a] <= total_supply
    /\ \A p \in DOMAIN allowances :
          allowances[p] >= 0 /\ allowances[p] <= MaxBalance

\* C8 witness: an allowance above a positive total_supply is stored and
\* the whole supply has moved from the creator to another account.
C8_Witness ==
    /\ total_supply > 0
    /\ \E p \in DOMAIN allowances : allowances[p] > total_supply
    /\ \E b \in Accounts \ {events[1].to} : balance_of(b) = total_supply

\* C9: total_supply() returns the initial_supply given at construction
\* (the value of the mint event) in every reachable state.
C9_SupplyFixed == total_supply_get = events[1].value

\* C9 witness: a transfer and an approve have both succeeded on a ledger
\* with a positive supply.
C9_Witness ==
    /\ total_supply > 0
    /\ Len(events) >= 3
    /\ \E i \in 2..Len(events) : events[i].type = "Approval"
    /\ \E i \in 2..Len(events) : events[i].type = "Transfer" /\ events[i].value > 0

\* C10: right after construction total_supply = initial_supply, the creator
\* holds initial_supply, every other account reads 0 and every allowance
\* reads 0.
C10_AfterConstruct ==
    op = "new" =>
        /\ Len(events) = 1
        /\ events[1].type = "Transfer"
        /\ events[1].from = None
        /\ events[1].value \in Balance
        /\ total_supply_get = events[1].value
        /\ balance_of(events[1].to) = events[1].value
        /\ \A x \in Accounts \ {events[1].to} :
              x \notin DOMAIN balances /\ balance_of(x) = 0
        /\ \A o \in Accounts, s \in Accounts :
              <<o, s>> \notin DOMAIN allowances /\ allowance(o, s) = 0

\* C10 witness: a ledger constructed with supply 0.
C10_Witness ==
    /\ op = "new"
    /\ events[1].value = 0
    /\ events[1].to \in Accounts

\* C11 as stated: a transfer_from by a caller whose allowance from `from`
\* is zero returns InsufficientAllowance and changes no balance and no
\* allowance, for any from, to and value.
C11_ZeroAllowanceAlwaysFails ==
    \A caller \in Accounts, from \in Accounts, to \in Accounts, value \in Balance :
        allowance(from, caller) = 0 =>
        ~ ENABLED (/\ transfer_from(caller, from, to, value)
                   /\ ~ (/\ result' = "InsufficientAllowance"
                         /\ balances' = balances
                         /\ allowances' = allowances))

\* C11 amended: with a zero allowance, a transfer_from of a value > 0
\* returns InsufficientAllowance, changes no balance and no allowance and
\* emits nothing; a transfer_from of value 0 passes the allowance check
\* (0 < 0 is false), returns Ok, emits Transfer{from, to, 0} and leaves
\* every balance and every allowance reading what it read before.
C11_ZeroAllowance ==
    \A caller \in Accounts, from \in Accounts, to \in Accounts, value \in Balance :
        allowance(from, caller) = 0 =>
        /\ Len(events) < MaxEvents => ENABLED transfer_from(caller, from, to, value)
        /\ ~ ENABLED (/\ transfer_from(caller, from, to, value)
                      /\ ~ IF value > 0
                           THEN /\ result' = "InsufficientAllowance"
                                /\ balances' = balances
                                /\ allowances' = allowances
                                /\ events' = events
                           ELSE /\ result' = "Ok"
                                /\ events' = Append(events, Transfer(from, to, 0))
                                /\ \A x \in Accounts :
                                      GetOrDefault(balances', x) = balance_of(x)
                                /\ \A o \in Accounts, s \in Accounts :
                                      GetOrDefault(allowances', <<o, s>>) = allowance(o, s))

\* C11 witness: a transfer_from was rejected for its allowance although the
\* owner holds tokens and has granted a positive allowance to someone else,
\* while another account has none from that owner.
C11_Witness ==
    /\ op = "transfer_from"
    /\ result = "InsufficientAllowance"
    /\ \E from \in Accounts, caller \in Accounts, other \in Accounts :
          /\ balance_of(from) > 0
          /\ allowance(from, caller) = 0
          /\ allowance(from, other) > 0

\* C12: amount arithmetic never wraps.  In every reachable state and for
\* every call, the balance movement has no trap outcome, from_balance -
\* value is >= 0, to_balance + value is at most the largest Balance, every
\* stored balance is the exact mathematical result, and a successful
\* transfer_from stores the exact allowance - value >= 0.
C12_NoWrap ==
    /\ result # "Panic"
    /\ \A from \in Accounts, to \in Accounts, value \in Balance :
          \A out \in transfer_from_to(from, to, value) :
              /\ out.res # "Panic"
              /\ out.res = "Ok" =>
                    /\ balance_of(from) - value >= 0
                    /\ (IF to = from THEN balance_of(to) - value ELSE balance_of(to))
                          + value <= MaxBalance
                    /\ \A x \in Accounts :
                          GetOrDefault(out.balances, x) =
                              balance_of(x) - (IF x = from THEN value ELSE 0)
                                            + (IF x = to THEN value ELSE 0)
    /\ \A caller \in Accounts, from \in Accounts, to \in Accounts, value \in Balance :
          ~ ENABLED (/\ transfer_from(caller, from, to, value)
                     /\ result' = "Ok"
                     /\ ~ (/\ allowance(from, caller) - value >= 0
                           /\ GetOrDefault(allowances', <<from, caller>>) =
                                 allowance(from, caller) - value))

\* C12 witness: a transfer of a positive value brought the recipient's
\* balance to the largest Balance value.
C12_Witness ==
    /\ op \in {"transfer", "transfer_from"}
    /\ result = "Ok"
    /\ LastEvent.type = "Transfer"
    /\ LastEvent.value > 0
    /\ LastEvent.from # LastEvent.to
    /\ balance_of(LastEvent.to) = MaxBalance

\* C13: the event log starts with the mint Transfer{None, creator,
\* initial_supply}; no later event has from = None and no event has
\* to = None; a successful transfer or transfer_from appends exactly the one
\* Transfer{source, to, value}, an approve appends exactly the one
\* Approval{caller, spender, value}, and a failed call appends nothing.
C13_LogShape ==
    /\ Len(events) >= 1
    /\ events[1].type = "Transfer"
    /\ events[1].from = None
    /\ events[1].to \in Accounts
    /\ events[1].value = total_supply
    /\ \A i \in 2..Len(events) :
          events[i].type = "Transfer" => events[i].from \in Accounts
    /\ \A i \in 1..Len(events) :
          events[i].type = "Transfer" => events[i].to \in Accounts
    /\ \A caller \in Accounts, to \in Accounts, value \in Balance :
          ~ ENABLED (/\ transfer(caller, to, value)
                     /\ events' # IF result' = "Ok"
                                  THEN Append(events, Transfer(caller, to, value))
                                  ELSE events)
    /\ \A caller \in Accounts, spender \in Accounts, value \in Balance :
          ~ ENABLED (/\ approve(caller, spender, value)
                     /\ events' # Append(events, Approval(caller, spender, value)))
    /\ \A caller \in Accounts, from \in Accounts, to \in Accounts, value \in Balance :
          ~ ENABLED (/\ transfer_from(caller, from, to, value)
                     /\ events' # IF result' = "Ok"
                                  THEN Append(events, Transfer(from, to, value))
                                  ELSE events)

\* C13 witness: the log holds the mint, an Approval and a Transfer made by
\* transfer_from, and the last call failed without adding to it.
C13_Witness ==
    /\ Len(events) = 3
    /\ events[2].type = "Approval"
    /\ events[3].type = "Transfer"
    /\ events[3].from = events[2].owner
    /\ events[3].value > 0
    /\ result \in Error

\* ------------------------------------------------------- read messages
\* The read-only messages as steps: result holds the returned Balance.
call_total_supply ==
    /\ op' = "total_supply"
    /\ result' = total_supply_get
    /\ UNCHANGED <<total_supply, balances, allowances, events>>

\* Variant of the balance_of message that stores the default it returns
\* for an account without an entry.
call_balance_of_Insert(owner) ==
    /\ op' = "balance_of"
    /\ result' = balance_of(owner)
    /\ balances' = Insert(balances, owner, balance_of(owner))
    /\ UNCHANGED <<total_supply, allowances, events>>

call_balance_of(owner) ==
    /\ op' = "balance_of"
    /\ result' = balance_of(owner)
    /\ UNCHANGED <<total_supply, balances, allowances, events>>

call_allowance(owner, spender) ==
    /\ op' = "allowance"
    /\ result' = allowance(owner, spender)
    /\ UNCHANGED <<total_supply, balances, allowances, events>>

ReadOps == {"total_supply", "balance_of", "allowance"}

NextReads ==
    \/ Next
    \/ call_total_supply /\ UNCHANGED hist
    \/ \E owner \in Accounts : call_balance_of(owner) /\ UNCHANGED hist
    \/ \E owner \in Accounts, spender \in Accounts :
          call_allowance(owner, spender) /\ UNCHANGED hist

SpecReads == Init /\ [][NextReads]_vars

\* C14: balance_of, allowance and total_supply change no part of the
\* ledger and emit nothing, return the stored value (0 when absent), and
\* the same read repeated right after returns that value again.
C14_ReadsPure ==
    /\ ~ ENABLED (/\ call_total_supply
                  /\ ~ (/\ UNCHANGED <<total_supply, balances, allowances, events>>
                        /\ result' = total_supply
                        /\ total_supply' = result'))
    /\ \A owner \in Accounts :
          ~ ENABLED (/\ call_balance_of(owner)
                     /\ ~ (/\ UNCHANGED <<total_supply, balances, allowances, events>>
                           /\ result' = GetOrDefault(balances, owner)
                           /\ GetOrDefault(balances', owner) = result'))
    /\ \A owner \in Accounts, spender \in Accounts :
          ~ ENABLED (/\ call_allowance(owner, spender)
                     /\ ~ (/\ UNCHANGED <<total_supply, balances, allowances, events>>
                           /\ result' = GetOrDefault(allowances, <<owner, spender>>)
                           /\ GetOrDefault(allowances', <<owner, spender>>) = result'))

\* C14 witness: a balance_of read returned a positive balance of an account
\* other than the creator, after tokens and an approval were written.
C14_Witness ==
    /\ op = "balance_of"
    /\ result > 0
    /\ Len(events) = 3
    /\ \E x \in Accounts \ {events[1].to} : balance_of(x) = result
    /\ \E p \in DOMAIN allowances : allowances[p] > 0

\* C15: a transfer whose recipient is the caller, and a transfer_from with
\* from = to, returns Ok exactly when the source balance (and, for
\* transfer_from, the allowance) is >= value, leaves every balance reading
\* what it read before, and emits the one Transfer{a, a, value}.
C15_SelfTransfer ==
    /\ \A a \in Accounts, value \in Balance :
          /\ Len(events) < MaxEvents => ENABLED transfer(a, a, value)
          /\ ~ ENABLED (/\ transfer(a, a, value)
                        /\ ~ IF balance_of(a) >= value
                             THEN /\ result' = "Ok"
                                  /\ \A x \in Accounts :
                                        GetOrDefault(balances', x) = balance_of(x)
                                  /\ events' = Append(events, Transfer(a, a, value))
                             ELSE /\ result' = "InsufficientBalance"
                                  /\ balances' = balances
                                  /\ events' = events)
    /\ \A caller \in Accounts, a \in Accounts, value \in Balance :
          /\ Len(events) < MaxEvents => ENABLED transfer_from(caller, a, a, value)
          /\ ~ ENABLED (/\ transfer_from(caller, a, a, value)
                        /\ ~ IF allowance(a, caller) >= value /\ balance_of(a) >= value
                             THEN /\ result' = "Ok"
                                  /\ \A x \in Accounts :
                                        GetOrDefault(balances', x) = balance_of(x)
                                  /\ events' = Append(events, Transfer(a, a, value))
                             ELSE /\ result' \in Error
                                  /\ balances' = balances
                                  /\ events' = events)

\* C15 witness: the last call moved a positive value from an account to
\* itself, and that account still holds its tokens.
C15_Witness ==
    /\ op \in {"transfer", "transfer_from"}
    /\ result = "Ok"
    /\ LastEvent.type = "Transfer"
    /\ LastEvent.from = LastEvent.to
    /\ LastEvent.value > 0
    /\ balance_of(LastEvent.to) >= LastEvent.value

\* C16: transfer(to, 0) returns Ok in every reachable state for every
\* caller and recipient, leaves every balance reading what it read before
\* and emits the one Transfer{caller, to, 0}.
C16_ZeroTransfer ==
    \A caller \in Accounts, to \in Accounts :
        /\ Len(events) < MaxEvents => ENABLED transfer(caller, to, 0)
        /\ ~ ENABLED (/\ transfer(caller, to, 0)
                      /\ ~ (/\ result' = "Ok"
                            /\ \A x \in Accounts :
                                  GetOrDefault(balances', x) = balance_of(x)
                            /\ events' = Append(events, Transfer(caller, to, 0))))

\* C16 witness: a zero-value transfer succeeded for a caller that is not
\* the creator and has never received tokens.
C16_Witness ==
    /\ op = "transfer"
    /\ result = "Ok"
    /\ LastEvent.type = "Transfer"
    /\ LastEvent.value = 0
    /\ LastEvent.from # LastEvent.to
    /\ \A i \in 1..(Len(events) - 1) :
          events[i].type = "Transfer" => events[i].to # LastEvent.from
    /\ balance_of(LastEvent.from) = 0

\* The entry stored under key k is the same in the maps m and n (absent in
\* both, or present in both with the same value).
SameEntry(m, n, k) ==
    /\ (k \in DOMAIN m) = (k \in DOMAIN n)
    /\ k \in DOMAIN m => m[k] = n[k]

\* C17: approve(spender, value) by caller changes no balance and no
\* allowance entry other than (caller, spender); transfer changes no
\* allowance entry; a successful transfer_from(from, to, value) by caller
\* changes no allowance entry other than (from, caller) and no balance
\* entry other than those of from and to.
C17_Frame ==
    /\ \A caller \in Accounts, spender \in Accounts, value \in Balance :
          ~ ENABLED (/\ approve(caller, spender, value)
                     /\ ~ (/\ balances' = balances
                           /\ total_supply' = total_supply
                           /\ \A p \in (Accounts \X Accounts) \ {<<caller, spender>>} :
                                 SameEntry(allowances, allowances', p)))
    /\ \A caller \in Accounts, to \in Accounts, value \in Balance :
          ~ ENABLED (/\ transfer(caller, to, value)
                     /\ ~ (/\ allowances' = allowances
                           /\ total_supply' = total_supply
                           /\ \A x \in Accounts \ {caller, to} :
                                 SameEntry(balances, balances', x)))
    /\ \A caller \in Accounts, from \in Accounts, to \in Accounts, value \in Balance :
          ~ ENABLED (/\ transfer_from(caller, from, to, value)
                     /\ result' = "Ok"
                     /\ ~ (/\ \A p \in (Accounts \X Accounts) \ {<<from, caller>>} :
                                 SameEntry(allowances, allowances', p)
                           /\ total_supply' = total_supply
                           /\ \A x \in Accounts \ {from, to} :
                                 SameEntry(balances, balances', x)))

\* C17 witness: a spender moved a positive value from the owner that
\* approved it to a third account.
C17_Witness ==
    /\ op = "transfer_from"
    /\ result = "Ok"
    /\ Len(events) = 3
    /\ events[2].type = "Approval"
    /\ events[2].owner # events[2].spender
    /\ events[3].type = "Transfer"
    /\ events[3].value > 0
    /\ events[3].from = events[2].owner
    /\ events[3].to \notin {events[2].owner, events[2].spender}
    /\ allowance(events[2].owner, events[2].spender) = events[2].value - events[3].value

\* Some allowance other than those under the keys in `except` reads higher
\* after the step than before it.
AllowanceRaised(except) ==
    \E o \in Accounts, s \in Accounts :
        /\ <<o, s>> \notin except
        /\ GetOrDefault(allowances', <<o, s>>) > allowance(o, s)

\* C18: the balance of an account A goes down only in a transfer called by
\* A or in a transfer_from(A, to, value) whose caller held an allowance
\* from A of at least value; an allowance (A, S) goes up only in an
\* approve(S, value) called by A.
C18_Authorization ==
    /\ \A caller \in Accounts, to \in Accounts, value \in Balance :
          ~ ENABLED (/\ transfer(caller, to, value)
                     /\ \/ \E A \in Accounts \ {caller} :
                              GetOrDefault(balances', A) < balance_of(A)
                        \/ AllowanceRaised({}))
    /\ \A caller \in Accounts, spender \in Accounts, value \in Balance :
          ~ ENABLED (/\ approve(caller, spender, value)
                     /\ \/ \E A \in Accounts :
                              GetOrDefault(balances', A) < balance_of(A)
                        \/ AllowanceRaised({<<caller, spender>>}))
    /\ \A caller \in Accounts, from \in Accounts, to \in Accounts, value \in Balance :
          ~ ENABLED (/\ transfer_from(caller, from, to, value)
                     /\ \/ \E A \in Accounts :
                              /\ GetOrDefault(balances', A) < balance_of(A)
                              /\ ~ (A = from /\ allowance(from, caller) >= value)
                        \/ AllowanceRaised({}))

\* C18 witness: after one approval, a transfer_from took a positive value
\* out of the approving owner's balance, and the spender is not the owner.
C18_Witness ==
    /\ op = "transfer_from"
    /\ result = "Ok"
    /\ Len(events) = 3
    /\ events[2].type = "Approval"
    /\ events[2].owner # events[2].spender
    /\ events[3].type = "Transfer"
    /\ events[3].from = events[2].owner
    /\ events[3].from # events[3].to
    /\ events[3].value > 0
    /\ balance_of(events[3].from) = total_supply - events[3].value

RECURSIVE NetReceived(_, _, _)
\* Over the first n events of log: the values of the Transfer events with
\* to = x minus the values of those with from = x.
NetReceived(log, n, x) ==
    IF n = 0 THEN 0
    ELSE LET e == log[n]
             d == IF e.type = "Transfer"
                  THEN (IF e.to = x THEN e.value ELSE 0)
                       - (IF e.from = x THEN e.value ELSE 0)
                  ELSE 0
         IN d + NetReceived(log, n - 1, x)

\* C20: for every account X, balance_of(X) equals the sum of the values of
\* the emitted Transfer events with to = X minus the sum of those with
\* from = X, the mint event included.
C20_BalancesFromLog ==
    \A x \in Accounts : balance_of(x) = NetReceived(events, Len(events), x)

\* C20 witness: the log holds two transfers of positive values after the
\* mint, the second one sent by the recipient of the first.
C20_Witness ==
    /\ Len(events) = 3
    /\ events[2].type = "Transfer"
    /\ events[3].type = "Transfer"
    /\ events[2].value > 0
    /\ events[3].value > 0
    /\ events[2].from # events[2].to
    /\ events[3].from = events[2].to
    /\ events[3].to # events[3].from
====
